---- MODULE Spec2Model ----
(***************************************************************************)
(* Sidecar lifecycle of comandas-frontend/src-tauri/src/lib.rs.            *)
(*                                                                         *)
(* Three kinds of control flow share AppState.backend_process:             *)
(*   - the startup task spawned in setup (run, lines 27-33), which runs    *)
(*     start_backend (lines 54-101);                                       *)
(*   - the relay task spawned by start_backend (lines 76-94);              *)
(*   - the on_window_event handler (lines 37-49), one run per              *)
(*     CloseRequested event.                                               *)
(* The child process and its event channel are the environment.           *)
(***************************************************************************)
EXTENDS Integers, Sequences, FiniteSets, TLC

\* ------------------------------------------------------------------ bounds
\* Number of CloseRequested events the host delivers.
MaxCloses == 2
\* Number of events the child emits before its Terminated event.
MaxEvents == 2
\* Number of store() calls driven by StoreSpec.
MaxStores == 4
\* Number of distinct handles StoreSpec offers to store().
MaxHandles == 3

\* Option<CommandChild>: None, or the identity of a spawned child.
None == 0

\* Handles offered to store() by StoreSpec.
Handles == 1..MaxHandles

\* ------------------------------------------------------------------ state
VARIABLES
    backend_process,  \* AppState.backend_process: the Option inside the Mutex
    lock_owner,       \* who holds the Mutex: "free", "start" or "close"
    start_pc,         \* position of the startup task in setup / start_backend
    child,            \* start_backend's local `child` (None once moved)
    start_result,     \* what start_backend returned: "none", "Ok", "Err"
    closes,           \* number of CloseRequested events delivered so far
    close_pc,         \* position of the CloseRequested handler
    close_child,      \* the handler's local `child` taken out of the slot
    spawned,          \* number of sidecar processes spawned so far
    child_state,      \* the sidecar process: "none", "running", "exited"
    emitted,          \* number of non-terminal events the child has emitted
    rx,               \* events buffered in the channel, oldest first
    tx_open,          \* the sending side of the channel is still alive
    relay_pc,         \* the relay task: "unstarted", "recv", "done"
    delivered,        \* events rx.recv() has returned so far (history)
    log,              \* lines written by println!/eprintln!, in order
    kill_log,         \* kill requests sent: who sent it, to which child
    stored,           \* handles written into the slot, in order (history)
    poisoned,         \* the Mutex is poisoned: lock() returns Err
    other_pc,         \* a second handler run, on another thread (ConcSpec)
    other_child       \* that handler's local `child`

vars == <<backend_process, lock_owner, start_pc, child, start_result,
          closes, close_pc, close_child, spawned, child_state, emitted, rx,
          tx_open,
          relay_pc, delivered, log, kill_log, stored, poisoned, other_pc,
          other_child>>

startVars == <<start_pc, child, start_result>>
closeVars == <<closes, close_pc, close_child>>
procVars  == <<spawned, child_state, emitted, rx, tx_open>>
relayVars == <<relay_pc, delivered>>
otherVars == <<other_pc, other_child>>

\* ------------------------------------------------------------------ data
\* Byte payloads of Stdout/Stderr lines: "ready", and a line with a byte
\* that is not valid UTF-8.
ReadyBytes == <<114, 101, 97, 100, 121>>
BadBytes == <<111, 255>>
\* Exit codes carried by Terminated.
ExitCodes == {0, 1}

\* The message of an Error event ("pipe").
PipeError == <<112, 105, 112, 101>>

\* CommandEvent values. `data` is always a sequence of numbers.
Event(kind, data) == [kind |-> kind, data |-> data]

NonTerminalEvents ==
    {Event("Stdout", ReadyBytes), Event("Stderr", BadBytes),
     Event("Error", PipeError), Event("Other", <<>>)}

\* String::from_utf8_lossy on the bytes used here: ASCII bytes decode to
\* themselves, a byte that cannot occur in UTF-8 becomes U+FFFD.
ReplacementChar == 65533

from_utf8_lossy(bytes) ==
    [i \in 1..Len(bytes) |->
        IF bytes[i] < 128 THEN bytes[i] ELSE ReplacementChar]

Line(stream, tag, text) == [stream |-> stream, tag |-> tag, text |-> text]

\* A relay whose match has no arm for Error.
RelayLinesSkipError(event) ==
    CASE event.kind = "Stdout" ->
            <<Line("out", "[Backend STDOUT]", from_utf8_lossy(event.data))>>
      [] event.kind = "Stderr" ->
            <<Line("err", "[Backend STDERR]", from_utf8_lossy(event.data))>>
      [] event.kind = "Terminated" ->
            <<Line("out", "[Backend] Proceso terminado", event.data)>>
      [] OTHER -> <<>>

\* The match of the relay loop: the lines one event produces.
RelayLines(event) ==
    CASE event.kind = "Stdout" ->
            <<Line("out", "[Backend STDOUT]", from_utf8_lossy(event.data))>>
      [] event.kind = "Stderr" ->
            <<Line("err", "[Backend STDERR]", from_utf8_lossy(event.data))>>
      [] event.kind = "Error" ->
            <<Line("err", "[Backend ERROR]", event.data)>>
      [] event.kind = "Terminated" ->
            <<Line("out", "[Backend] Proceso terminado", event.data)>>
      [] OTHER -> <<>>

\* A store that keeps a handle already present (get_or_insert).
StoreFirstWins(backend, new) == IF backend = None THEN new ELSE backend

\* `*backend = Some(child)`: the slot holds the new handle.
Store(backend, new) == new

\* Dropping a CommandChild sends nothing to the process.
DropChild(h, kills) == kills

\* A handler that reads the slot without emptying it (as_ref / clone).
TakeKeep(backend) == [slot |-> backend, taken |-> backend]

\* `backend.take()`: the slot is left None, the old content is returned.
Take(backend) == [slot |-> None, taken |-> backend]

\* `child.kill()`: a kill request to the process behind the handle.
Kill(c, h, kills) == Append(kills, [by |-> c, child |-> h])

\* ------------------------------------------------------------------ Init
Init ==
    /\ backend_process = None
    /\ lock_owner = "free"
    /\ start_pc = "start"
    /\ child = None
    /\ start_result = "none"
    /\ closes = 0
    /\ close_pc = "idle"
    /\ close_child = None
    /\ spawned = 0
    /\ child_state = "none"
    /\ emitted = 0
    /\ rx = <<>>
    /\ tx_open = FALSE
    /\ relay_pc = "unstarted"
    /\ delivered = <<>>
    /\ log = <<>>
    /\ kill_log = <<>>
    /\ stored = <<>>
    /\ poisoned = FALSE
    /\ other_pc = "idle"
    /\ other_child = None

\* ------------------------------------------------------------------ startup task
\* A start_backend that spawns the relay loop right after the spawn, before
\* the store.
SpawnOkRelayFirst ==
    /\ start_pc = "start"
    /\ spawned' = spawned + 1
    /\ child' = spawned + 1
    /\ child_state' = "running"
    /\ tx_open' = TRUE
    /\ relay_pc' = "recv"
    /\ start_pc' = "lock"
    /\ UNCHANGED <<poisoned, otherVars, backend_process, lock_owner,
                   start_result, closeVars, emitted, rx, delivered, log,
                   kill_log, stored>>

\* shell.sidecar(name)?.spawn()? succeeds: a process runs, `child` and `rx`
\* are bound.
SpawnOk ==
    /\ start_pc = "start"
    /\ spawned' = spawned + 1
    /\ child' = spawned + 1
    /\ child_state' = "running"
    /\ tx_open' = TRUE
    /\ start_pc' = "lock"
    /\ UNCHANGED <<poisoned, otherVars, backend_process, lock_owner,
                   start_result, closeVars, emitted, rx, relayVars, log,
                   kill_log, stored>>

\* A failure that is recorded but does not return: the task goes on to start
\* the relay.
SpawnFailContinue ==
    /\ start_pc = "start"
    /\ start_result' = "Err"
    /\ start_pc' = "relay"
    /\ UNCHANGED <<poisoned, otherVars, backend_process, lock_owner, child,
                   closeVars, procVars, relayVars, log, kill_log, stored>>

\* sidecar() or spawn() fails: `?` returns the error from start_backend.
SpawnFail ==
    /\ start_pc = "start"
    /\ start_result' = "Err"
    /\ start_pc' = "report"
    /\ UNCHANGED <<poisoned, otherVars, backend_process, lock_owner, child,
                   closeVars, procVars, relayVars, log, kill_log, stored>>

\* A store that does not wait for the Mutex (try_lock result ignored).
StartLockNoWait ==
    /\ start_pc = "lock"
    /\ lock_owner' = "start"
    /\ start_pc' = "store"
    /\ UNCHANGED <<poisoned, otherVars, backend_process, child, start_result,
                   closeVars, procVars, relayVars, log, kill_log, stored>>

\* state.backend_process.lock() in start_backend.
StartLock ==
    /\ start_pc = "lock"
    /\ lock_owner = "free"
    /\ ~poisoned
    /\ lock_owner' = "start"
    /\ start_pc' = "store"
    /\ UNCHANGED <<poisoned, otherVars, backend_process, child, start_result,
                   closeVars, procVars, relayVars, log, kill_log, stored>>

\* *backend = Some(child): the previous content is dropped, `child` is moved.
StartStore ==
    /\ start_pc = "store"
    /\ backend_process' = Store(backend_process, child)
    /\ kill_log' = DropChild(backend_process, kill_log)
    /\ stored' = Append(stored, child)
    /\ child' = None
    /\ start_pc' = "unlock"
    /\ UNCHANGED <<poisoned, otherVars, lock_owner, start_result, closeVars,
                   procVars, relayVars, log>>

\* The guard goes out of scope at the end of the if-let block.
StartUnlock ==
    /\ start_pc = "unlock"
    /\ lock_owner' = "free"
    /\ start_pc' = "relay"
    /\ UNCHANGED <<poisoned, otherVars, backend_process, child, start_result,
                   closeVars, procVars, relayVars, log, kill_log, stored>>

\* tauri::async_runtime::spawn of the relay loop.
StartRelay ==
    /\ start_pc = "relay"
    /\ relay_pc' = "recv"
    /\ start_pc' = "sleep"
    /\ UNCHANGED <<poisoned, otherVars, backend_process, lock_owner, child,
                   start_result, closeVars, procVars, delivered, log,
                   kill_log, stored>>

\* A readiness probe in place of the sleep: Err when the child has exited.
StartSleepProbe ==
    /\ start_pc = "sleep"
    /\ log' = IF child_state = "exited" THEN log
              ELSE Append(log, Line("out", "Backend deberia estar listo", <<>>))
    /\ start_result' = IF child_state = "exited" THEN "Err" ELSE "Ok"
    /\ start_pc' = "report"
    /\ UNCHANGED <<poisoned, otherVars, backend_process, lock_owner, child,
                   closeVars, procVars, relayVars, kill_log, stored>>

\* The 5 second sleep ends, the readiness line is printed, Ok(()) returned;
\* a `child` that was not moved into the slot is dropped with the locals.
StartSleep ==
    /\ start_pc = "sleep"
    /\ log' = Append(log, Line("out", "Backend deberia estar listo", <<>>))
    /\ start_result' = "Ok"
    /\ child' = None
    /\ start_pc' = "report"
    /\ UNCHANGED <<poisoned, otherVars, backend_process, lock_owner,
                   closeVars, procVars, relayVars, kill_log, stored>>

\* The match on start_backend's result in the task spawned by setup.
StartReport ==
    /\ start_pc = "report"
    /\ log' = Append(log,
            IF start_result = "Ok"
            THEN Line("out", "Backend iniciado correctamente", <<>>)
            ELSE Line("err", "Error al iniciar backend", <<>>))
    /\ start_pc' = "done"
    /\ UNCHANGED <<poisoned, otherVars, backend_process, lock_owner, child,
                   start_result, closeVars, procVars, relayVars, kill_log,
                   stored>>

StartNext ==
    \/ SpawnOk
    \/ SpawnFail
    \/ StartLock
    \/ StartStore
    \/ StartUnlock
    \/ StartRelay
    \/ StartSleep
    \/ StartReport

\* ------------------------------------------------------------------ close handler
\* The host's event loop delivers window events one at a time: a
\* CloseRequested event reaches on_window_event when no handler is running.
CloseRequested ==
    /\ close_pc = "idle"
    /\ closes < MaxCloses
    /\ closes' = closes + 1
    /\ close_pc' = "lock"
    /\ UNCHANGED <<poisoned, otherVars, backend_process, lock_owner,
                   startVars, close_child, procVars, relayVars, log,
                   kill_log, stored>>

\* state.backend_process.lock() in the handler.
CloseLock ==
    /\ close_pc = "lock"
    /\ lock_owner = "free"
    /\ ~poisoned
    /\ lock_owner' = "close"
    /\ close_pc' = "take"
    /\ UNCHANGED <<poisoned, otherVars, backend_process, startVars,
                   close_child, closes, procVars, relayVars, log, kill_log,
                   stored>>

\* A handler that kills whatever take() returned, without the Some test.
CloseTakeAlwaysKill ==
    /\ close_pc = "take"
    /\ backend_process' = Take(backend_process).slot
    /\ close_child' = Take(backend_process).taken
    /\ close_pc' = "kill"
    /\ UNCHANGED <<poisoned, otherVars, lock_owner, startVars, closes,
                   procVars, relayVars, log, kill_log, stored>>

\* A handler that drops the guard right after take(), before the kill.
CloseTakeRelease ==
    /\ close_pc = "take"
    /\ backend_process' = Take(backend_process).slot
    /\ close_child' = Take(backend_process).taken
    /\ close_pc' = IF Take(backend_process).taken # None
                   THEN "kill" ELSE "unlock"
    /\ lock_owner' = "free"
    /\ UNCHANGED <<poisoned, otherVars, startVars, closes, procVars,
                   relayVars, log, kill_log, stored>>

\* if let Some(mut child) = backend.take()
CloseTake ==
    /\ close_pc = "take"
    /\ backend_process' = Take(backend_process).slot
    /\ close_child' = Take(backend_process).taken
    /\ close_pc' = IF Take(backend_process).taken # None
                   THEN "kill" ELSE "unlock"
    /\ UNCHANGED <<poisoned, otherVars, lock_owner, startVars, closes,
                   procVars, relayVars, log, kill_log, stored>>

\* A handler that takes the handle and drops it without the kill.
CloseKillSkip ==
    /\ close_pc = "kill"
    /\ close_pc' = "unlock"
    /\ UNCHANGED <<poisoned, otherVars, backend_process, lock_owner,
                   startVars, close_child, closes, procVars, relayVars, log,
                   kill_log, stored>>

\* A handler that waits for the child to exit before it goes on.
CloseKillWaits ==
    /\ close_pc = "kill"
    /\ child_state = "exited"
    /\ kill_log' = Kill(closes, close_child, kill_log)
    /\ log' = Append(log, Line("out", "Backend detenido", <<>>))
    /\ close_pc' = "unlock"
    /\ UNCHANGED <<poisoned, otherVars, backend_process, lock_owner,
                   startVars, close_child, closes, procVars, relayVars,
                   stored>>

\* let _ = child.kill(); println!("Backend detenido");
CloseKill ==
    /\ close_pc = "kill"
    /\ kill_log' = Kill(closes, close_child, kill_log)
    /\ log' = Append(log, Line("out", "Backend detenido", <<>>))
    /\ close_pc' = "unlock"
    /\ UNCHANGED <<poisoned, otherVars, backend_process, lock_owner,
                   startVars, close_child, closes, procVars, relayVars,
                   stored>>

\* End of the if-let blocks: `child` and the guard are dropped, the handler
\* returns.
CloseUnlock ==
    /\ close_pc = "unlock"
    /\ lock_owner' = "free"
    /\ close_child' = None
    /\ close_pc' = "idle"
    /\ UNCHANGED <<poisoned, otherVars, backend_process, startVars, closes,
                   procVars, relayVars, log, kill_log, stored>>

CloseRun ==
    \/ CloseLock
    \/ CloseTake
    \/ CloseKill
    \/ CloseUnlock

\* ------------------------------------------------------------------ child process
\* The running child emits an output line, an error or another event.
ChildEmit(e) ==
    /\ child_state = "running"
    /\ emitted < MaxEvents
    /\ emitted' = emitted + 1
    /\ rx' = Append(rx, e)
    /\ UNCHANGED <<poisoned, otherVars, backend_process, lock_owner,
                   startVars, closeVars, spawned, child_state, tx_open,
                   relayVars, log, kill_log, stored>>

\* The child exits (by itself or after a kill): Terminated is the last
\* event and the sending side of the channel goes away.
ChildExit(code) ==
    /\ child_state = "running"
    /\ child_state' = "exited"
    /\ rx' = Append(rx, Event("Terminated", <<code>>))
    /\ tx_open' = FALSE
    /\ UNCHANGED <<poisoned, otherVars, backend_process, lock_owner,
                   startVars, closeVars, spawned, emitted, relayVars, log,
                   kill_log, stored>>

\* ------------------------------------------------------------------ relay task
\* A relay that clears the slot when it sees Terminated.
RelayRecvClears ==
    /\ relay_pc = "recv"
    /\ rx # <<>>
    /\ log' = log \o RelayLines(Head(rx))
    /\ delivered' = Append(delivered, Head(rx))
    /\ rx' = Tail(rx)
    /\ backend_process' = IF Head(rx).kind = "Terminated"
                          THEN None ELSE backend_process
    /\ UNCHANGED <<poisoned, otherVars, lock_owner, startVars, closeVars,
                   spawned, child_state, emitted, tx_open, relay_pc,
                   kill_log, stored>>

\* A relay whose Error arm breaks out of the loop.
RelayRecvStopsOnError ==
    /\ relay_pc = "recv"
    /\ rx # <<>>
    /\ log' = log \o RelayLines(Head(rx))
    /\ delivered' = Append(delivered, Head(rx))
    /\ rx' = Tail(rx)
    /\ relay_pc' = IF Head(rx).kind = "Error" THEN "done" ELSE relay_pc
    /\ UNCHANGED <<poisoned, otherVars, backend_process, lock_owner,
                   startVars, closeVars, spawned, child_state, emitted,
                   tx_open, kill_log, stored>>

\* rx.recv().await returns Some(event): one pass of the loop body.
RelayRecv ==
    /\ relay_pc = "recv"
    /\ rx # <<>>
    /\ log' = log \o RelayLines(Head(rx))
    /\ delivered' = Append(delivered, Head(rx))
    /\ rx' = Tail(rx)
    /\ UNCHANGED <<poisoned, otherVars, backend_process, lock_owner,
                   startVars, closeVars, spawned, child_state, emitted,
                   tx_open, relay_pc, kill_log, stored>>

\* rx.recv().await returns None: the channel is closed and drained.
RelayEnd ==
    /\ relay_pc = "recv"
    /\ rx = <<>>
    /\ ~tx_open
    /\ relay_pc' = "done"
    /\ UNCHANGED <<poisoned, otherVars, backend_process, lock_owner,
                   startVars, closeVars, procVars, delivered, log, kill_log,
                   stored>>

\* ------------------------------------------------------------------ specification
Next ==
    \/ StartNext
    \/ CloseRequested
    \/ CloseRun
    \/ \E e \in NonTerminalEvents : ChildEmit(e)
    \/ \E code \in ExitCodes : ChildExit(code)
    \/ RelayRecv
    \/ RelayEnd

Spec == Init /\ [][Next]_vars

\* The scheduler runs the startup task and a handler that has been entered.
FairSpec == Spec /\ WF_vars(StartNext) /\ WF_vars(CloseRun)

\* ------------------------------------------------------------------ store() alone
\* Lines 69-73 as one call with handle h: lock, write the slot, unlock.
StoreCall(h) ==
    /\ lock_owner = "free"
    /\ Len(stored) < MaxStores
    /\ backend_process' = Store(backend_process, h)
    /\ kill_log' = DropChild(backend_process, kill_log)
    /\ stored' = Append(stored, h)
    /\ UNCHANGED <<poisoned, otherVars, lock_owner, startVars, closeVars,
                   procVars, relayVars, log>>

StoreNext == \E h \in Handles : StoreCall(h)

\* The store operation driven by every sequence of handles.
StoreSpec == Init /\ [][StoreNext]_vars

\* ------------------------------------------------------------------ poisoned Mutex
\* A thread has panicked while it held the guard: from now on lock() returns
\* Err. Nothing in lib.rs panics under the lock by itself; the Err arms of the
\* two lock() calls are reached only through this step of the environment.
PoisonMutex ==
    /\ ~poisoned
    /\ lock_owner = "free"
    /\ poisoned' = TRUE
    /\ UNCHANGED <<otherVars, backend_process, lock_owner, startVars,
                   closeVars, procVars, relayVars, log, kill_log, stored>>

\* A start_backend that turns the Err of lock() into its own error.
StartLockPoisonedErr ==
    /\ start_pc = "lock"
    /\ lock_owner = "free"
    /\ poisoned
    /\ start_result' = "Err"
    /\ child' = None
    /\ start_pc' = "report"
    /\ UNCHANGED <<poisoned, otherVars, backend_process, lock_owner,
                   closeVars, procVars, relayVars, log, kill_log, stored>>

\* lock() in start_backend returns Err: the if-let body is skipped, `child`
\* stays in the local.
StartLockPoisoned ==
    /\ start_pc = "lock"
    /\ lock_owner = "free"
    /\ poisoned
    /\ start_pc' = "relay"
    /\ UNCHANGED <<poisoned, otherVars, backend_process, lock_owner, child,
                   start_result, closeVars, procVars, relayVars, log,
                   kill_log, stored>>

\* lock() in the handler returns Err: the if-let body is skipped, the handler
\* returns.
CloseLockPoisoned ==
    /\ close_pc = "lock"
    /\ lock_owner = "free"
    /\ poisoned
    /\ close_pc' = "idle"
    /\ UNCHANGED <<poisoned, otherVars, backend_process, lock_owner,
                   startVars, closes, close_child, procVars, relayVars, log,
                   kill_log, stored>>

PoisonNext ==
    \/ Next
    \/ PoisonMutex
    \/ StartLockPoisoned
    \/ CloseLockPoisoned

PoisonSpec == Init /\ [][PoisonNext]_vars

\* ------------------------------------------------------------------ a second handler
\* on_window_event entered on another thread while the first handler may
\* be running (the closure is Send + Sync): the same lines 37-49.
OtherRequested ==
    /\ other_pc = "idle"
    /\ other_pc' = "lock"
    /\ UNCHANGED <<poisoned, other_child, backend_process, lock_owner,
                   startVars, closeVars, procVars, relayVars, log, kill_log,
                   stored>>

\* A handler that goes on without the lock (try_lock result ignored).
OtherLockNoWait ==
    /\ other_pc = "lock"
    /\ ~poisoned
    /\ lock_owner' = "other"
    /\ other_pc' = "take"
    /\ UNCHANGED <<poisoned, other_child, backend_process, startVars,
                   closeVars, procVars, relayVars, log, kill_log, stored>>

OtherLock ==
    /\ other_pc = "lock"
    /\ lock_owner = "free"
    /\ ~poisoned
    /\ lock_owner' = "other"
    /\ other_pc' = "take"
    /\ UNCHANGED <<poisoned, other_child, backend_process, startVars,
                   closeVars, procVars, relayVars, log, kill_log, stored>>

OtherTake ==
    /\ other_pc = "take"
    /\ backend_process' = Take(backend_process).slot
    /\ other_child' = Take(backend_process).taken
    /\ other_pc' = IF Take(backend_process).taken # None
                   THEN "kill" ELSE "unlock"
    /\ UNCHANGED <<poisoned, lock_owner, startVars, closeVars, procVars,
                   relayVars, log, kill_log, stored>>

OtherKill ==
    /\ other_pc = "kill"
    /\ kill_log' = Kill(0, other_child, kill_log)
    /\ log' = Append(log, Line("out", "Backend detenido", <<>>))
    /\ other_pc' = "unlock"
    /\ UNCHANGED <<poisoned, other_child, backend_process, lock_owner,
                   startVars, closeVars, procVars, relayVars, stored>>

OtherUnlock ==
    /\ other_pc = "unlock"
    /\ lock_owner' = "free"
    /\ other_child' = None
    /\ other_pc' = "done"
    /\ UNCHANGED <<poisoned, backend_process, startVars, closeVars, procVars,
                   relayVars, log, kill_log, stored>>

OtherRun ==
    \/ OtherLock
    \/ OtherTake
    \/ OtherKill
    \/ OtherUnlock

\* The child's output lines play no part in who holds the handle: here the
\* child only exits.
ConcNext ==
    \/ StartNext
    \/ CloseRequested
    \/ CloseRun
    \/ OtherRequested
    \/ OtherRun
    \/ \E code \in ExitCodes : ChildExit(code)
    \/ RelayRecv
    \/ RelayEnd

ConcSpec == Init /\ [][ConcNext]_vars

\* ------------------------------------------------------------------ properties
\* Steps of the close handler, as seen from outside.
TakeStep == close_pc = "take" /\ close_pc' # "take"
KillStep == close_pc = "kill" /\ close_pc' # "kill"
ReturnStep == close_pc = "unlock" /\ close_pc' = "idle"

\* Number of places that hold a handle.
HandleCopies ==
    (IF child # None THEN 1 ELSE 0)
        + (IF backend_process # None THEN 1 ELSE 0)
        + (IF close_child # None THEN 1 ELSE 0)

\* C1: once the startup task has finished after a successful spawn and a
\* close request has been handled to its end, a kill request has been sent
\* to the sidecar.
C1_KilledAfterClose ==
    (spawned > 0 /\ start_pc = "done" /\ closes >= 1 /\ close_pc = "idle")
        => kill_log # <<>>

\* C2: a close handler that takes the lock after spawn has succeeded finds
\* the handle in the slot, unless an earlier handler already took it.
C2_HandleAvailableAfterSpawn ==
    [][(close_pc = "lock" /\ close_pc' = "take" /\ spawned > 0
            /\ kill_log = <<>>)
        => backend_process # None]_vars

\* C3: a close handled while the handle is stored and the startup task is in
\* its delay empties the slot and sends the kill without touching the startup
\* task, which then finishes its delay and returns Ok.
C3_CloseDuringDelay ==
    /\ [][(start_pc = "sleep" /\ backend_process # None /\ TakeStep)
            => /\ backend_process' = None
               /\ close_child' = backend_process
               /\ close_pc' = "kill"
               /\ UNCHANGED startVars]_vars
    /\ [][(start_pc = "sleep" /\ KillStep)
            => /\ kill_log' = Append(kill_log,
                                     [by |-> closes, child |-> close_child])
               /\ UNCHANGED startVars]_vars
    /\ (start_pc = "sleep" /\ close_pc = "kill")
            ~> (start_pc = "done" /\ start_result = "Ok" /\ kill_log # <<>>)

C3_Witness ==
    /\ start_pc = "sleep"
    /\ close_pc = "unlock"
    /\ backend_process = None
    /\ kill_log # <<>>

\* C4: at most one sidecar is spawned, its handle is in exactly one place
\* until the handler that killed it returns, and the startup store and the
\* handler's take are never inside the lock together.
C4_OneHandle ==
    /\ spawned <= 1
    /\ HandleCopies <= 1
    /\ (spawned = 1 /\ kill_log = <<>>) => HandleCopies = 1
    /\ (kill_log # <<>> /\ kill_log[1].by = closes /\ close_pc = "unlock")
            => close_child = kill_log[1].child
    /\ ~(start_pc \in {"store", "unlock"}
            /\ close_pc \in {"take", "kill", "unlock"})

C4_Witness ==
    /\ start_pc = "store"
    /\ close_pc = "lock"
    /\ child # None

\* C5: of two close requests, the first that finds the handle empties the
\* slot and sends the one kill; a later one finds the slot empty, sends no
\* kill and returns.
C5_SecondCloseNoOp ==
    /\ [](Len(kill_log) <= 1)
    /\ [][(TakeStep /\ backend_process # None)
            => (backend_process' = None /\ close_pc' = "kill")]_vars
    /\ [][(TakeStep /\ kill_log # <<>>)
            => /\ backend_process = None
               /\ backend_process' = None
               /\ close_pc' = "unlock"
               /\ kill_log' = kill_log]_vars
    /\ [][ReturnStep => UNCHANGED <<backend_process, kill_log, log>>]_vars

C5_Witness ==
    /\ closes = 2
    /\ close_pc = "unlock"
    /\ close_child = None
    /\ Len(kill_log) = 1
    /\ kill_log[1].by = 1

\* C6: a close handled while the slot is empty sends no kill, writes
\* nothing, leaves the slot empty and returns.
C6_EmptyCloseNoOp ==
    /\ [][(TakeStep /\ backend_process = None)
            => /\ backend_process' = None
               /\ close_child' = None
               /\ close_pc' = "unlock"
               /\ UNCHANGED <<kill_log, log, startVars>>]_vars
    /\ [][(ReturnStep /\ close_child = None)
            => UNCHANGED <<backend_process, kill_log, log, startVars>>]_vars

C6_Witness ==
    /\ close_pc = "unlock"
    /\ close_child = None
    /\ stored = <<>>
    /\ kill_log = <<>>

\* C7: after any sequence of store() calls the slot holds the handle stored
\* last, and no kill has been sent to any handle stored before it.
C7_LastWriteWins ==
    /\ stored # <<>> => backend_process = stored[Len(stored)]
    /\ kill_log = <<>>

C7_Witness ==
    /\ Len(stored) >= 3
    /\ stored[1] # stored[2]
    /\ stored[2] # stored[3]
    /\ backend_process = stored[Len(stored)]

\* The lines of the log written by the relay, and the kind each reports.
RelayTags ==
    {"[Backend STDOUT]", "[Backend STDERR]", "[Backend ERROR]",
     "[Backend] Proceso terminado"}
IsRelayLine(l) == l.tag \in RelayTags
RelayLog == SelectSeq(log, IsRelayLine)
KindOfTag(tag) ==
    CASE tag = "[Backend STDOUT]" -> "Stdout"
      [] tag = "[Backend STDERR]" -> "Stderr"
      [] tag = "[Backend ERROR]" -> "Error"
      [] OTHER -> "Terminated"
IsForwarded(e) == e.kind \in {"Stdout", "Stderr", "Error", "Terminated"}
Forwarded(events) == SelectSeq(events, IsForwarded)

\* C8: the relay's lines are, in order, one per Stdout, Stderr, Error or
\* Terminated event received and none for other events; the relay ends only
\* when the channel is closed and drained, having received every event; for
\* Stdout("ready"), Terminated(0) the lines are exactly those two.
C8_RelayForwardsInOrder ==
    /\ Len(RelayLog) = Len(Forwarded(delivered))
    /\ \A i \in 1..Len(RelayLog) :
            /\ KindOfTag(RelayLog[i].tag) = Forwarded(delivered)[i].kind
            /\ Len(RelayLog[i].text) = Len(Forwarded(delivered)[i].data)
    /\ relay_pc = "done"
            => /\ rx = <<>>
               /\ ~tx_open
               /\ Len(delivered) = emitted + 1
               /\ delivered[Len(delivered)].kind = "Terminated"
    /\ (relay_pc = "done"
            /\ delivered = <<Event("Stdout", ReadyBytes),
                             Event("Terminated", <<0>>)>>)
            => RelayLog = <<Line("out", "[Backend STDOUT]", ReadyBytes),
                            Line("out", "[Backend] Proceso terminado", <<0>>)>>

C8_Witness ==
    /\ relay_pc = "done"
    /\ delivered = <<Event("Stdout", ReadyBytes), Event("Terminated", <<0>>)>>

\* C9: after a failed spawn start_backend has returned Err, the startup task
\* reports it, and the slot stays empty: no process, no relay, no store, no
\* kill, whatever close requests follow.
C9_SpawnFailure ==
    start_result = "Err"
        => /\ backend_process = None
           /\ child = None
           /\ close_child = None
           /\ spawned = 0
           /\ child_state = "none"
           /\ relay_pc = "unstarted"
           /\ stored = <<>>
           /\ kill_log = <<>>
           /\ start_pc \in {"report", "done"}
           /\ start_pc = "done"
                => log = <<Line("err", "Error al iniciar backend", <<>>)>>

C9_Witness ==
    /\ start_result = "Err"
    /\ start_pc = "done"
    /\ closes = 2
    /\ close_pc = "idle"

\* C10: the kill request is never issued while the lock is held.
C10_NoKillUnderLock ==
    [][kill_log' # kill_log => lock_owner = "free"]_vars

\* C10 as amended: the handler holds the lock from take() until it returns,
\* so across the kill; the startup task holds it only around the write of the
\* slot, never across spawn, the start of the relay or the delay.
C10_LockScope ==
    /\ [](lock_owner = "close" <=> close_pc \in {"take", "kill", "unlock"})
    /\ [](lock_owner = "start" <=> start_pc \in {"store", "unlock"})
    /\ [][kill_log' # kill_log
            => (lock_owner = "close" /\ lock_owner' = "close")]_vars

C10_Witness ==
    /\ close_pc = "unlock"
    /\ lock_owner = "close"
    /\ kill_log # <<>>

\* One pass of the relay loop, as seen from outside.
RelayStep == delivered' # delivered

\* C11: the relay is started, and any child event received or logged, only
\* after the store step of start_backend is over: the handle has been written
\* into the slot, or lock() returned Err and the step was skipped.
C11_StoreBeforeRelay ==
    (relay_pc # "unstarted" \/ delivered # <<>> \/ RelayLog # <<>>)
        => /\ start_pc \in {"sleep", "report", "done"}
           /\ lock_owner # "start"
           /\ \/ stored # <<>> /\ child = None
              \/ poisoned /\ stored = <<>> /\ backend_process = None

C11_Witness ==
    /\ delivered # <<>>
    /\ RelayLog # <<>>
    /\ start_pc = "sleep"

\* C12: no pass of the relay and no exit of the child changes the slot; after
\* the relay has logged Terminated and ended, a handle nobody took is still in
\* the slot, and a close request then takes it and sends the kill to it.
C12_TerminatedKeepsHandle ==
    /\ [][(RelayStep \/ relay_pc' # relay_pc \/ child_state' # child_state)
            => UNCHANGED <<backend_process, kill_log, close_child>>]_vars
    /\ [](relay_pc = "done" /\ kill_log = <<>> /\ close_child = None
            => backend_process = stored[1])
    /\ [][(child_state = "exited" /\ TakeStep /\ backend_process # None)
            => close_pc' = "kill" /\ close_child' = backend_process]_vars
    /\ [][(child_state = "exited" /\ KillStep)
            => kill_log' = Append(kill_log,
                                  [by |-> closes, child |-> close_child])]_vars

C12_Witness ==
    /\ Len(log) >= 2
    /\ log[Len(log) - 1].tag = "[Backend] Proceso terminado"
    /\ log[Len(log)].tag = "Backend detenido"
    /\ relay_pc = "done"
    /\ closes = 1

\* C14: a close handler that has been entered returns, whatever the startup
\* task and the relay do and whether or not the child ever exits.
C14_CloseCompletes ==
    /\ []<>(close_pc = "idle")
    /\ [][KillStep => (close_pc' = "unlock" /\ Len(kill_log') = Len(kill_log) + 1)]_vars
    /\ [][ReturnStep => lock_owner' = "free"]_vars

C14_Witness ==
    /\ close_pc = "idle"
    /\ closes = 1
    /\ kill_log # <<>>
    /\ child_state = "running"
    /\ start_pc = "sleep"

\* The events received after the last Error event, and the relay's lines
\* written after the last Error line.
LastError ==
    IF \E i \in 1..Len(delivered) : delivered[i].kind = "Error"
    THEN CHOOSE i \in 1..Len(delivered) :
            /\ delivered[i].kind = "Error"
            /\ \A j \in (i + 1)..Len(delivered) : delivered[j].kind # "Error"
    ELSE 0
LastErrorLine ==
    IF \E i \in 1..Len(RelayLog) : RelayLog[i].tag = "[Backend ERROR]"
    THEN CHOOSE i \in 1..Len(RelayLog) :
            /\ RelayLog[i].tag = "[Backend ERROR]"
            /\ \A j \in (i + 1)..Len(RelayLog) :
                    RelayLog[j].tag # "[Backend ERROR]"
    ELSE 0

\* C15: receiving an Error event writes its line and nothing else: the relay
\* keeps reading, the slot, the child and the kills are untouched, and every
\* event that follows an Error is received and forwarded as any other.
C15_ErrorDoesNotStopRelay ==
    /\ [][(RelayStep /\ Head(rx).kind = "Error")
            => /\ log' = Append(log, Line("err", "[Backend ERROR]",
                                          Head(rx).data))
               /\ relay_pc' = "recv"
               /\ rx' = Tail(rx)
               /\ UNCHANGED <<backend_process, child_state, tx_open,
                              kill_log, startVars, closeVars>>]_vars
    /\ [](LastError > 0
            => /\ LastErrorLine > 0
               /\ Len(RelayLog) - LastErrorLine
                    = Len(Forwarded(SubSeq(delivered, LastError + 1,
                                           Len(delivered)))))
    /\ [](relay_pc = "done"
            => (rx = <<>> /\ Len(delivered) = emitted + 1))

C15_Witness ==
    /\ Len(delivered) = 3
    /\ delivered[1].kind = "Error"
    /\ delivered[2].kind = "Stdout"
    /\ Len(RelayLog) = 3
    /\ relay_pc = "done"
    /\ backend_process # None

\* C17: after a successful spawn the startup task always gets to the end of
\* its delay, writes the readiness line and returns Ok, whether the child has
\* exited, has been sent a kill or has emitted Error events.
C17_BlindReadiness ==
    /\ [](spawned > 0 /\ start_pc \in {"report", "done"}
            => /\ start_result = "Ok"
               /\ \E i \in 1..Len(log) :
                    log[i].tag = "Backend deberia estar listo")
    /\ [][(start_pc = "sleep" /\ start_pc' # "sleep")
            => /\ start_result' = "Ok"
               /\ log' = Append(log,
                        Line("out", "Backend deberia estar listo", <<>>))]_vars
    /\ <>(start_pc = "done")

C17_Witness ==
    /\ start_pc = "done"
    /\ start_result = "Ok"
    /\ child_state = "exited"
    /\ kill_log # <<>>
    /\ \E i \in 1..Len(delivered) : delivered[i].kind = "Error"
    /\ log[Len(log)].tag = "Backend iniciado correctamente"
    /\ log[1].tag = "[Backend ERROR]"

\* C18: once a handler has taken a handle out of the slot, the slot is empty
\* from then on; the one store comes before any take that finds a handle.
C18_EmptyAfterTake ==
    /\ [][(close_child # None \/ kill_log # <<>>)
            => (backend_process' = None /\ stored' = stored)]_vars
    /\ [][(TakeStep /\ backend_process # None)
            => (stored = <<backend_process>> /\ backend_process' = None)]_vars
    /\ [](Len(stored) <= 1)

C18_Witness ==
    /\ kill_log # <<>>
    /\ close_pc = "idle"
    /\ closes = 2
    /\ start_pc = "done"
    /\ backend_process = None

\* C16: when lock() returns Err the store is skipped with the slot, the kills
\* and the log unchanged and start_backend goes on to start the relay and to
\* return Ok; the take is skipped the same way and the handler returns.
C16_PoisonedLockNoOp ==
    /\ [][(poisoned /\ start_pc = "lock" /\ start_pc' # "lock")
            => /\ start_pc' = "relay"
               /\ UNCHANGED <<backend_process, kill_log, log, stored,
                              start_result, lock_owner>>]_vars
    /\ [][(poisoned /\ close_pc = "lock" /\ close_pc' # "lock")
            => /\ close_pc' = "idle"
               /\ UNCHANGED <<backend_process, kill_log, log, stored,
                              close_child, lock_owner>>]_vars
    /\ [](spawned > 0 /\ start_pc \in {"report", "done"}
            => (start_result = "Ok" /\ relay_pc # "unstarted"))
    /\ [](stored = <<>> => backend_process = None)

C16_Witness ==
    /\ poisoned
    /\ spawned = 1
    /\ stored = <<>>
    /\ start_pc = "done"
    /\ start_result = "Ok"
    /\ relay_pc = "done"
    /\ closes = 2
    /\ close_pc = "idle"
    /\ kill_log = <<>>

\* C13: with two handlers and the startup store contending for the slot, a
\* handle is never held by both handlers, at most one of the three is inside
\* the lock, and no handle is sent more than one kill.
C13_OneTakerPerHandle ==
    /\ ~(close_child # None /\ other_child # None)
    /\ (IF child # None THEN 1 ELSE 0)
            + (IF backend_process # None THEN 1 ELSE 0)
            + (IF close_child # None THEN 1 ELSE 0)
            + (IF other_child # None THEN 1 ELSE 0) <= 1
    /\ (IF start_pc \in {"store", "unlock"} THEN 1 ELSE 0)
            + (IF close_pc \in {"take", "kill", "unlock"} THEN 1 ELSE 0)
            + (IF other_pc \in {"take", "kill", "unlock"} THEN 1 ELSE 0) <= 1
    /\ \A i, j \in 1..Len(kill_log) :
            kill_log[i].child = kill_log[j].child => i = j

C13_Witness ==
    /\ other_pc = "unlock"
    /\ other_child # None
    /\ close_pc = "lock"
    /\ kill_log = <<[by |-> 0, child |-> 1]>>

====
